---- MODULE Spec2Model ----
(***************************************************************************)
(* Checkout and order placement of the Constructo storefront client.       *)
(*                                                                         *)
(* The model follows frontend/app/checkout.tsx (CheckoutScreen):           *)
(* validateAddress, handlePlaceOrder and handleRazorpayPayment, cut at     *)
(* every await into one step per continuation, together with the cart      *)
(* store (useCartStore) and the REST wrappers ordersApi / paymentsApi.     *)
(* The backend and the Razorpay checkout UI are the environment: their     *)
(* answers are drawn from small sets.                                      *)
(*                                                                         *)
(* Outside the checkout screen the model follows the cart screen           *)
(* (CartScreen, CartItemCard), the auth store (useAuthStore) over          *)
(* AsyncStorage, ProfileScreen.handleLogout and ProductDetailScreen, each  *)
(* handler again cut at its awaits, with the backend's cart as a variable. *)
(***************************************************************************)
EXTENDS Integers, Sequences, FiniteSets, TLC

\* ------------------------------------------------------------------ bounds
\* Number of presses of the Place Order / Pay Now button that are explored.
MaxAttempts == 2

\* Largest quantity of the cart line in the carts the totals are checked on.
MaxQty == 6

\* ------------------------------------------------------- program constants
FreeShippingThreshold == 5000
ShippingCharge == 99
MinPhoneLen == 10
PincodeLen == 6
OrderRefLen == 8

\* ------------------------------------------------------------ JS helpers
\* The value of a property that is absent (error.description, detail).
Undefined == "<undefined>"

\* JavaScript  x || d  on strings: undefined and '' are falsy.
OrElse(x, d) == IF x = Undefined \/ x = "" THEN d ELSE x

\* JavaScript  !s  on a string.
Falsy(s) == s = Undefined \/ s = ""

\* String.prototype.slice(0, n) on an id held as a sequence of characters.
Slice(s, n) == SubSeq(s, 1, IF Len(s) < n THEN Len(s) ELSE n)

VARIABLES
    platform,       \* Platform.OS: "web" or "native", fixed for a run
    items,          \* useCartStore.items
    total,          \* useCartStore.total
    loading,        \* CheckoutScreen state: loading
    paymentMethod,  \* CheckoutScreen state: paymentMethod
    address,        \* CheckoutScreen state: address
    attempts,       \* one record per invocation of handlePlaceOrder
    orders,         \* the Orders the backend has created
    auth,           \* useAuthStore: user, token, isLoading
    storage,        \* AsyncStorage: the keys auth_token and auth_user
    server,         \* the cart the backend holds for the user
    calls,          \* one record per invocation of a handler outside checkout
    screen          \* CartScreen and ProductDetailScreen state

vars == <<platform, items, total, loading, paymentMethod, address, attempts, orders,
          auth, storage, server, calls, screen>>

\* The state outside the checkout screen.
session == <<auth, storage, server, calls, screen>>

\* JavaScript null, for values held as strings.
Null == "<null>"

\* The session as the checkout screen finds it: logged in, nothing in flight.
LoggedIn ==
    /\ auth = [user |-> "asha", token |-> "token-asha", isLoading |-> FALSE]
    /\ storage = [auth_token |-> "token-asha", auth_user |-> "{asha}"]
    /\ calls = <<>>
    /\ screen = [route |-> "checkout", loading |-> FALSE, quantity |-> 1,
                 addingToCart |-> FALSE, stock |-> 1, summary |-> <<>>]

\* ------------------------------------------------------------- test data
EmptyAddress ==
    [full_name |-> "", phone |-> "", address_line1 |-> "", address_line2 |-> "",
     city |-> "", state |-> "", pincode |-> ""]

ValidAddress ==
    [full_name |-> "Asha Rao", phone |-> "9876543210", address_line1 |-> "12 MG Road",
     address_line2 |-> "", city |-> "Pune", state |-> "MH", pincode |-> "411001"]

\* The texts the address form can hold when the button is pressed.
Addresses ==
    { EmptyAddress,
      ValidAddress,
      [ValidAddress EXCEPT !.city = ""],
      [ValidAddress EXCEPT !.phone = "987654321"],
      [ValidAddress EXCEPT !.pincode = "41100"] }

\* Carts the server can have handed to setCart before the screen is used.
Carts ==
    { [items |-> <<[product_id |-> "cement", quantity |-> 2, price |-> 2000]>>,
       total |-> 4000],
      [items |-> <<[product_id |-> "cement", quantity |-> 2, price |-> 2000],
                   [product_id |-> "steel", quantity |-> 1, price |-> 2000]>>,
       total |-> 6000] }

\* -------------------------------------------------------------- events
\* Everything an attempt does that is visible outside it, in program order.
Event(kind, data) == [kind |-> kind, data |-> data]

Alert(title, message) ==
    Event("Alert.alert", [title |-> title, message |-> message, ref |-> <<>>, nav |-> <<>>])

\* The success alerts: the message shows orderId.slice(0, 8), the button
\* navigates to /order/${orderId}.
SuccessAlert(title, orderId) ==
    Event("Alert.alert",
          [title |-> title,
           message |-> "Your order #${ref} has been placed successfully.",
           ref |-> Slice(orderId, OrderRefLen),
           nav |-> orderId])

SetLoading(b) == Event("setLoading", [value |-> b])
ClearCart == Event("clearCart", [n |-> 0])
Request(path, body) == Event(path, body)
Response(path, data) == Event("response " \o path, data)

\* ---------------------------------------------------- cart store, totals
\* A clearCart that removes one line of the cart per call.
clearCart_DropsFirst ==
    [items |-> IF items = <<>> THEN <<>> ELSE Tail(items), total |-> 0]

\* useCartStore.clearCart
clearCart == [items |-> <<>>, total |-> 0]

\* The fee with its comparison turned round.
shippingFee_Inverted(t) == IF t < FreeShippingThreshold THEN 0 ELSE ShippingCharge

shippingFee(t) == IF t > FreeShippingThreshold THEN 0 ELSE ShippingCharge

\* The grand total without the shipping fee.
grandTotal_WithoutShipping(t) == t

grandTotal(t) == t + shippingFee(t)

\* ------------------------------------------------------ address validator
\* validateAddress without its pincode rule.
validateAddress_NoPincodeRule(a) ==
    IF Falsy(a.full_name) \/ Falsy(a.phone) \/ Falsy(a.address_line1)
       \/ Falsy(a.city) \/ Falsy(a.state) \/ Falsy(a.pincode)
    THEN [ok |-> FALSE, ev |-> <<Alert("Error", "Please fill in all required fields")>>]
    ELSE IF Len(a.phone) < MinPhoneLen
    THEN [ok |-> FALSE, ev |-> <<Alert("Error", "Please enter a valid phone number")>>]
    ELSE [ok |-> TRUE, ev |-> <<>>]

\* validateAddress with the pincode rule checked before the phone rule.
validateAddress_PincodeFirst(a) ==
    IF Falsy(a.full_name) \/ Falsy(a.phone) \/ Falsy(a.address_line1)
       \/ Falsy(a.city) \/ Falsy(a.state) \/ Falsy(a.pincode)
    THEN [ok |-> FALSE, ev |-> <<Alert("Error", "Please fill in all required fields")>>]
    ELSE IF Len(a.pincode) # PincodeLen
    THEN [ok |-> FALSE, ev |-> <<Alert("Error", "Please enter a valid 6-digit pincode")>>]
    ELSE IF Len(a.phone) < MinPhoneLen
    THEN [ok |-> FALSE, ev |-> <<Alert("Error", "Please enter a valid phone number")>>]
    ELSE [ok |-> TRUE, ev |-> <<>>]

validateAddress(a) ==
    IF Falsy(a.full_name) \/ Falsy(a.phone) \/ Falsy(a.address_line1)
       \/ Falsy(a.city) \/ Falsy(a.state) \/ Falsy(a.pincode)
    THEN [ok |-> FALSE, ev |-> <<Alert("Error", "Please fill in all required fields")>>]
    ELSE IF Len(a.phone) < MinPhoneLen
    THEN [ok |-> FALSE, ev |-> <<Alert("Error", "Please enter a valid phone number")>>]
    ELSE IF Len(a.pincode) # PincodeLen
    THEN [ok |-> FALSE, ev |-> <<Alert("Error", "Please enter a valid 6-digit pincode")>>]
    ELSE [ok |-> TRUE, ev |-> <<>>]

\* ------------------------------------------------------------ environment
\* POST /orders: a fresh server-assigned id, or a rejection that may carry
\* response.data.detail.
OrderResponses ==
    { [ok |-> TRUE, detail |-> Undefined],
      [ok |-> FALSE, detail |-> Undefined],
      [ok |-> FALSE, detail |-> "Cart is empty"] }

\* The id of the n-th Order of the backend, a string longer than OrderRefLen.
ServerOrderId(n) == <<ToString(n), "f", "3", "a", "9", "c", "0", "7", "e", ToString(n)>>

\* POST /payments/create-order: the RazorpayOrder returned for an amount.
RazorpayOrderFor(orderId, amount) ==
    [razorpay_order_id |-> <<"r", "z", "p", "_">> \o orderId,
     amount |-> amount, currency |-> "INR", key_id |-> "rzp_key"]

\* What the Razorpay checkout UI can end with: the success tuple, the user's
\* cancellation, or a failure with or without a description.
GatewayResults ==
    { [ok |-> TRUE, code |-> Undefined, description |-> Undefined],
      [ok |-> FALSE, code |-> "PAYMENT_CANCELLED", description |-> Undefined],
      [ok |-> FALSE, code |-> "BAD_REQUEST_ERROR", description |-> "Card declined"],
      [ok |-> FALSE, code |-> "BAD_REQUEST_ERROR", description |-> Undefined] }

\* The success tuple the UI returns for a RazorpayOrder.
GatewayResponse(razorpayOrder) ==
    [razorpay_order_id |-> razorpayOrder.razorpay_order_id,
     razorpay_payment_id |-> <<"p", "a", "y", "_">> \o razorpayOrder.razorpay_order_id,
     razorpay_signature |-> <<"s", "i", "g", "_">> \o razorpayOrder.razorpay_order_id]

\* The error a rejected API call throws (an axios error: it has a code, and
\* no description).
ApiError == [ok |-> FALSE, code |-> "ERR_BAD_REQUEST", description |-> Undefined]

\* ------------------------------------------------- handlePlaceOrder steps
\* An attempt: the closure of one handlePlaceOrder invocation, its position
\* (pc) and the events it has produced.  startItems/startTotal record the
\* cart the button was pressed on.
NewAttempt(pc, ev) ==
    [pc |-> pc, hist |-> ev,
     address |-> address, paymentMethod |-> paymentMethod,
     grandTotal |-> grandTotal(total),
     orderId |-> <<>>,
     razorpayOrder |-> RazorpayOrderFor(<<>>, 0),
     startItems |-> items, startTotal |-> total]

\* The finally block of handlePlaceOrder.
\* handlePlaceOrder without its finally block.
placeOrderFinally_Missing == <<>>

placeOrderFinally == <<SetLoading(FALSE)>>

\* handlePlaceOrder that requests the payment intent without awaiting
\* createOrder.
handlePlaceOrderStart_NoAwait(addr, method) ==
    LET v == validateAddress(addr) IN
    IF ~v.ok
    THEN [pc |-> "validation_failed", ev |-> v.ev]
    ELSE [pc |-> "creatingOrder",
          ev |-> <<SetLoading(TRUE),
                   Request("POST /orders",
                           [shipping_address |-> addr, payment_method |-> method])>>
                 \o (IF method = "razorpay"
                     THEN <<Request("POST /payments/create-order",
                                    [amount |-> grandTotal(total)])>>
                     ELSE <<>>)]

\* handlePlaceOrder up to its first await.
handlePlaceOrderStart(addr, method) ==
    LET v == validateAddress(addr) IN
    IF ~v.ok
    THEN [pc |-> "validation_failed", ev |-> v.ev]
    ELSE [pc |-> "creatingOrder",
          ev |-> <<SetLoading(TRUE),
                   Request("POST /orders",
                           [shipping_address |-> addr, payment_method |-> method])>>]

\* handlePlaceOrder whose COD branch forgets clearCart.
handlePlaceOrderCreated_CodKeepsCart(att, resp, orderId) ==
    IF ~resp.ok
    THEN [pc |-> "order_failed",
          ev |-> <<Alert("Error", OrElse(resp.detail, "Failed to place order"))>>
                 \o placeOrderFinally]
    ELSE IF att.paymentMethod = "razorpay"
    THEN [pc |-> "creatingIntent",
          ev |-> <<Request("POST /payments/create-order", [amount |-> att.grandTotal])>>]
    ELSE [pc |-> "cod_success",
          ev |-> <<SuccessAlert("Order Placed!", orderId)>> \o placeOrderFinally]

\* handlePlaceOrder whose catch ignores the server's detail message.
handlePlaceOrderCreated_GenericMessage(att, resp, orderId) ==
    IF ~resp.ok
    THEN [pc |-> "order_failed",
          ev |-> <<Alert("Error", "Failed to place order")>> \o placeOrderFinally]
    ELSE IF att.paymentMethod = "razorpay"
    THEN [pc |-> "creatingIntent",
          ev |-> <<Request("POST /payments/create-order", [amount |-> att.grandTotal])>>]
    ELSE [pc |-> "cod_success",
          ev |-> <<ClearCart, SuccessAlert("Order Placed!", orderId)>> \o placeOrderFinally]

\* handlePlaceOrder after ordersApi.createOrder settled; on the razorpay
\* branch this enters handleRazorpayPayment up to its first await.
handlePlaceOrderCreated(att, resp, orderId) ==
    IF ~resp.ok
    THEN [pc |-> "order_failed",
          ev |-> <<Alert("Error", OrElse(resp.detail, "Failed to place order"))>>
                 \o placeOrderFinally]
    ELSE IF att.paymentMethod = "razorpay"
    THEN [pc |-> "creatingIntent",
          ev |-> <<Request("POST /payments/create-order", [amount |-> att.grandTotal])>>]
    ELSE [pc |-> "cod_success",
          ev |-> <<ClearCart, SuccessAlert("Order Placed!", orderId)>> \o placeOrderFinally]

\* -------------------------------------------- handleRazorpayPayment steps
\* The options handed to the payment UI.
checkoutOptions(att) ==
    [key |-> att.razorpayOrder.key_id, amount |-> att.razorpayOrder.amount,
     currency |-> att.razorpayOrder.currency,
     order_id |-> att.razorpayOrder.razorpay_order_id,
     prefill |-> [name |-> att.address.full_name, contact |-> att.address.phone]]

\* A verify request that sends the gateway's order id as order_id.
verifyRequest_GatewayIdAsOrder(att, response) ==
    Request("POST /payments/verify",
            [razorpay_order_id |-> response.razorpay_order_id,
             razorpay_payment_id |-> response.razorpay_payment_id,
             razorpay_signature |-> response.razorpay_signature,
             order_id |-> response.razorpay_order_id])

verifyRequest(att, response) ==
    Request("POST /payments/verify",
            [razorpay_order_id |-> response.razorpay_order_id,
             razorpay_payment_id |-> response.razorpay_payment_id,
             razorpay_signature |-> response.razorpay_signature,
             order_id |-> att.orderId])

\* The success path shared by the web handler and the native branch.
paymentSuccess(att) == <<ClearCart, SuccessAlert("Payment Successful!", att.orderId)>>

\* The native catch without its test for PAYMENT_CANCELLED.
nativeCatch_AlertsCancel(error) ==
    <<Alert("Payment Failed", OrElse(error.description, "Something went wrong"))>>

\* The catch of the native branch: it receives the rejection of
\* RazorpayCheckout.open and the rejection of verifyPayment alike.
nativeCatch(error) ==
    IF error.code # "PAYMENT_CANCELLED"
    THEN <<Alert("Payment Failed", OrElse(error.description, "Something went wrong"))>>
    ELSE <<>>

\* The catch of the web handler.
handlerCatch(error) == <<Alert("Payment Verification Failed", "Please contact support.")>>

\* The outer catch of handleRazorpayPayment.
razorpayCatch(error) == <<Alert("Error", "Failed to initiate payment. Please try again.")>>

\* After paymentsApi.createRazorpayOrder settled.  On the web the script tag
\* is appended and handleRazorpayPayment returns, so handlePlaceOrder runs
\* its finally; on native RazorpayCheckout.open is awaited.
handleRazorpayPaymentIntent(att, ok, os) ==
    IF ~ok
    THEN [pc |-> "intent_failed", ev |-> razorpayCatch(ApiError) \o placeOrderFinally]
    ELSE IF os = "web"
    THEN [pc |-> "scriptLoading",
          ev |-> <<Event("appendChild(script)", [src |-> "checkout.js"])>>
                 \o placeOrderFinally]
    ELSE [pc |-> "awaitingGateway",
          ev |-> <<Event("RazorpayCheckout.open", checkoutOptions(att))>>]

\* script.onload on the web.
scriptOnload(att) ==
    [pc |-> "awaitingGateway", ev |-> <<Event("rzp.open", checkoutOptions(att))>>]

\* The payment UI ended, and verification is requested whatever the result.
gatewayResult_VerifiesAlways(att, result, os) ==
    IF result.ok
    THEN [pc |-> "verifying", ev |-> <<verifyRequest(att, GatewayResponse(att.razorpayOrder))>>]
    ELSE [pc |-> IF result.code = "PAYMENT_CANCELLED" THEN "cancelled" ELSE "gateway_error",
          ev |-> <<verifyRequest(att, GatewayResponse(att.razorpayOrder))>>
                 \o (IF os = "web" THEN <<>> ELSE nativeCatch(result) \o placeOrderFinally)]

\* The payment UI ended.  On the web only options.handler is registered, so
\* only a success reaches the code; on native the promise of
\* RazorpayCheckout.open resolves or rejects.
gatewayResult(att, result, os) ==
    IF result.ok
    THEN [pc |-> "verifying", ev |-> <<verifyRequest(att, GatewayResponse(att.razorpayOrder))>>]
    ELSE [pc |-> IF result.code = "PAYMENT_CANCELLED" THEN "cancelled" ELSE "gateway_error",
          ev |-> IF os = "web" THEN <<>> ELSE nativeCatch(result) \o placeOrderFinally]

\* The continuation after verifyPayment that does not look at its outcome.
verifyResult_IgnoresRejection(att, ok, os) ==
    IF os = "web"
    THEN [pc |-> "verified", ev |-> paymentSuccess(att)]
    ELSE [pc |-> "verified", ev |-> paymentSuccess(att) \o placeOrderFinally]

\* The continuation after verifyPayment that tries a rejected call again.
verifyResult_RetriesOnce(att, ok, os) ==
    IF ~ok /\ Cardinality({k \in 1..Len(att.hist) :
                              att.hist[k].kind = "POST /payments/verify"}) = 1
    THEN [pc |-> "verifying",
          ev |-> <<verifyRequest(att, GatewayResponse(att.razorpayOrder))>>]
    ELSE IF os = "web"
    THEN IF ok
         THEN [pc |-> "verified", ev |-> paymentSuccess(att)]
         ELSE [pc |-> "verification_failed", ev |-> handlerCatch(ApiError)]
    ELSE IF ok
         THEN [pc |-> "verified", ev |-> paymentSuccess(att) \o placeOrderFinally]
         ELSE [pc |-> "verification_failed",
               ev |-> nativeCatch(ApiError) \o placeOrderFinally]

\* After paymentsApi.verifyPayment settled.
verifyResult(att, ok, os) ==
    IF os = "web"
    THEN IF ok
         THEN [pc |-> "verified", ev |-> paymentSuccess(att)]
         ELSE [pc |-> "verification_failed", ev |-> handlerCatch(ApiError)]
    ELSE IF ok
         THEN [pc |-> "verified", ev |-> paymentSuccess(att) \o placeOrderFinally]
         ELSE [pc |-> "verification_failed",
               ev |-> nativeCatch(ApiError) \o placeOrderFinally]

\* ----------------------------------------------------- applying a step
RECURSIVE LastLoading(_, _)
LastLoading(ev, cur) ==
    IF ev = <<>> THEN cur
    ELSE LastLoading(Tail(ev), IF Head(ev).kind = "setLoading" THEN Head(ev).data.value ELSE cur)

Clears(ev) == \E k \in 1..Len(ev) : ev[k].kind = "clearCart"

\* The store and screen state after the events of one step.
Effects(ev) ==
    /\ loading' = LastLoading(ev, loading)
    /\ items' = IF Clears(ev) THEN clearCart.items ELSE items
    /\ total' = IF Clears(ev) THEN clearCart.total ELSE total

\* Attempt i takes a step: env are the events of the environment that wake
\* it, eff is what the code does then.
Advance(i, env, eff) ==
    /\ attempts' = [attempts EXCEPT ![i].pc = eff.pc, ![i].hist = @ \o env \o eff.ev]
    /\ Effects(eff.ev)

Terminal ==
    {"validation_failed", "order_failed", "cod_success", "intent_failed",
     "cancelled", "gateway_error", "verified", "verification_failed"}

\* ------------------------------------------------------------- actions
Init ==
    /\ platform \in {"web", "native"}
    /\ \E c \in Carts : items = c.items /\ total = c.total
    /\ loading = FALSE
    /\ paymentMethod = "razorpay"
    /\ address = EmptyAddress
    /\ attempts = <<>>
    /\ orders = {}
    /\ LoggedIn
    /\ server = [items |-> items, total |-> total]

\* onChangeText of the address form.
SetAddress ==
    /\ \E a \in Addresses : a # address /\ address' = a
    /\ UNCHANGED <<platform, items, total, loading, paymentMethod, attempts, orders>>
    /\ UNCHANGED session

\* onPress of a payment option.
SetPaymentMethod ==
    /\ \E m \in {"razorpay", "cod"} : m # paymentMethod /\ paymentMethod' = m
    /\ UNCHANGED <<platform, items, total, loading, address, attempts, orders>>
    /\ UNCHANGED session

\* The Place Order button rendered for an empty cart as well.
PlaceOrder_NoRenderGuard ==
    /\ Len(attempts) < MaxAttempts
    /\ ~loading
    /\ LET eff == handlePlaceOrderStart(address, paymentMethod) IN
        /\ attempts' = Append(attempts, NewAttempt(eff.pc, eff.ev))
        /\ Effects(eff.ev)
    /\ UNCHANGED <<platform, paymentMethod, address, orders>>
    /\ UNCHANGED session

\* onPress of the Place Order button: rendered only for a cart with items,
\* disabled while loading.
PlaceOrder ==
    /\ Len(attempts) < MaxAttempts
    /\ Len(items) # 0
    /\ ~loading
    /\ LET eff == handlePlaceOrderStart(address, paymentMethod) IN
        /\ attempts' = Append(attempts, NewAttempt(eff.pc, eff.ev))
        /\ Effects(eff.ev)
    /\ UNCHANGED <<platform, paymentMethod, address, orders>>
    /\ UNCHANGED session

\* ordersApi.createOrder settles.
CreateOrderSettles ==
    \E i \in 1..Len(attempts), resp \in OrderResponses :
        /\ attempts[i].pc = "creatingOrder"
        /\ LET id == IF resp.ok THEN ServerOrderId(Cardinality(orders) + 1) ELSE <<>>
               att == [attempts[i] EXCEPT !.orderId = id]
               eff == handlePlaceOrderCreated(att, resp, id)
           IN /\ orders' = IF resp.ok
                           THEN orders \cup {[id |-> id, attempt |-> i,
                                              payment_method |-> att.paymentMethod,
                                              status |-> "pending"]}
                           ELSE orders
              /\ attempts' = [attempts EXCEPT ![i] =
                                [att EXCEPT !.pc = eff.pc,
                                            !.hist = @ \o <<Response("POST /orders", resp)>>
                                                       \o eff.ev]]
              /\ Effects(eff.ev)
        /\ UNCHANGED <<platform, paymentMethod, address>>
        /\ UNCHANGED session

\* paymentsApi.createRazorpayOrder settles.
CreateIntentSettles ==
    \E i \in 1..Len(attempts), ok \in BOOLEAN :
        /\ attempts[i].pc = "creatingIntent"
        /\ LET cur == attempts[i]
               att == [cur EXCEPT !.razorpayOrder =
                          IF ok THEN RazorpayOrderFor(cur.orderId, cur.grandTotal) ELSE @]
               eff == handleRazorpayPaymentIntent(att, ok, platform)
           IN /\ attempts' = [attempts EXCEPT ![i] =
                                [att EXCEPT !.pc = eff.pc,
                                            !.hist = @ \o <<Response("POST /payments/create-order", [ok |-> ok])>>
                                                       \o eff.ev]]
              /\ Effects(eff.ev)
        /\ UNCHANGED <<platform, paymentMethod, address, orders>>
        /\ UNCHANGED session

\* The checkout.js script has loaded (web only).
ScriptLoads ==
    \E i \in 1..Len(attempts) :
        /\ attempts[i].pc = "scriptLoading"
        /\ Advance(i, <<>>, scriptOnload(attempts[i]))
        /\ UNCHANGED <<platform, paymentMethod, address, orders>>
        /\ UNCHANGED session

\* The payment UI ends.
GatewayEnds ==
    \E i \in 1..Len(attempts), result \in GatewayResults :
        /\ attempts[i].pc = "awaitingGateway"
        /\ Advance(i, <<Event("payment UI result", result)>>,
                   gatewayResult(attempts[i], result, platform))
        /\ UNCHANGED <<platform, paymentMethod, address, orders>>
        /\ UNCHANGED session

\* paymentsApi.verifyPayment settles.
VerifySettles ==
    \E i \in 1..Len(attempts), ok \in BOOLEAN :
        /\ attempts[i].pc = "verifying"
        /\ Advance(i, <<Response("POST /payments/verify", [ok |-> ok])>>,
                   verifyResult(attempts[i], ok, platform))
        /\ UNCHANGED <<platform, paymentMethod, address, orders>>
        /\ UNCHANGED session

Next ==
    \/ SetAddress
    \/ SetPaymentMethod
    \/ PlaceOrder
    \/ CreateOrderSettles
    \/ CreateIntentSettles
    \/ ScriptLoads
    \/ GatewayEnds
    \/ VerifySettles

Spec == Init /\ [][Next]_vars

\* ===================================================================
\* Reading an attempt's events
\* ===================================================================
Attempts == 1..Len(attempts)

\* The positions of the events of a kind in a history.
At(h, kind) == {k \in 1..Len(h) : h[k].kind = kind}

\* The positions of the events of a kind that report success.
OkAt(h, kind) == {k \in At(h, kind) : h[k].data.ok}

AlertsIn(h) == SelectSeq(h, LAMBDA e : e.kind = "Alert.alert")

PaymentCalls(h) == At(h, "POST /payments/create-order") \cup At(h, "POST /payments/verify")

UiOpens(h) == At(h, "rzp.open") \cup At(h, "RazorpayCheckout.open")

\* Every position of later lies after some position of earlier.
Precedes(earlier, later) == \A k \in later : \E j \in earlier : j < k

\* Attempt i reaches position pc in the step at hand.
Reaches(i, pc) ==
    /\ i \in 1..Len(attempts')
    /\ attempts'[i].pc = pc
    /\ IF i > Len(attempts) THEN TRUE ELSE attempts[i].pc # pc

\* The rules of the address validator, as the specification words them.
AddressRulesHold(a) ==
    /\ a.full_name # "" /\ a.phone # "" /\ a.address_line1 # ""
    /\ a.city # "" /\ a.state # "" /\ a.pincode # ""
    /\ Len(a.phone) >= 10
    /\ Len(a.pincode) = 6

\* ===================================================================
\* C1 - cart cleared exactly on success
\* ===================================================================
Success == {"cod_success", "verified"}

\* C1: Whenever an attempt reaches a terminal state, Cart State is empty
\* (no items, total zero) if that state is COD success or Verified, and in
\* every other terminal state items and total equal the values they had
\* when the attempt started.
C1_ClearedIffSuccess ==
    [][\A i \in 1..Len(attempts') :
          \A pc \in Terminal :
              Reaches(i, pc) =>
                  IF pc \in Success
                  THEN items' = <<>> /\ total' = 0
                  ELSE /\ items' = attempts'[i].startItems
                       /\ total' = attempts'[i].startTotal]_vars

\* An attempt that ends in a failure after another attempt, still in flight
\* when it started, has emptied the cart.
C1_Overlap ==
    \E i, j \in Attempts :
        /\ i # j
        /\ attempts[i].pc = "verified"
        /\ attempts[j].pc = "order_failed"
        /\ attempts[j].startItems # <<>>
        /\ items = <<>>

\* ===================================================================
\* C2 - verification only, and always, after a successful payment UI result
\* ===================================================================
\* C2: In every attempt the number of POST /payments/verify requests equals
\* the number of success results of the payment UI (at most one of each),
\* every verify request comes after a success result, and an attempt that
\* ended in cancellation, gateway error or intent failure has none.
C2_VerifyIffUiSuccess ==
    \A i \in Attempts :
        LET h == attempts[i].hist
            v == At(h, "POST /payments/verify")
            s == OkAt(h, "payment UI result")
        IN /\ Cardinality(v) = Cardinality(s)
           /\ Cardinality(v) <= 1
           /\ Precedes(s, v)
           /\ attempts[i].pc \in {"cancelled", "gateway_error", "intent_failed"} => v = {}

\* One attempt has requested verification, another ended without payment.
C2_Witness ==
    \E i, j \in Attempts :
        /\ At(attempts[i].hist, "POST /payments/verify") # {}
        /\ attempts[j].pc \in {"cancelled", "gateway_error"}

\* ===================================================================
\* C3 - rejected verification
\* ===================================================================
\* C3: An attempt whose verify call was rejected has shown exactly the
\* alert "Payment Verification Failed / Please contact support.", which is
\* not the alert of a gateway error, has not cleared the cart and has
\* reported no success, on either platform.
C3_VerificationFailedDistinct ==
    \A i \in Attempts :
        attempts[i].pc = "verification_failed" =>
            LET h == attempts[i].hist IN
            /\ AlertsIn(h) = <<Alert("Payment Verification Failed", "Please contact support.")>>
            /\ At(h, "clearCart") = {}

\* ===================================================================
\* C4 - the validator guards the network
\* ===================================================================
\* C4: An attempt whose address breaks a validator rule has issued no
\* order-creation call and no payment call, and every address sent with
\* POST /orders satisfies all three rules.
C4_InvalidAddressNoCalls ==
    \A i \in Attempts :
        LET h == attempts[i].hist IN
        /\ ~AddressRulesHold(attempts[i].address) =>
               /\ At(h, "POST /orders") = {}
               /\ PaymentCalls(h) = {}
               /\ UiOpens(h) = {}
        /\ \A k \in At(h, "POST /orders") : AddressRulesHold(h[k].data.shipping_address)

\* One attempt was stopped by the pincode rule, another reached POST /orders.
C4_Witness ==
    \E i, j \in Attempts :
        /\ attempts[i].pc = "validation_failed"
        /\ Len(attempts[i].address.pincode) # 6
        /\ At(attempts[j].hist, "POST /orders") # {}

\* ===================================================================
\* C5 - cash on delivery
\* ===================================================================
\* C5: The step in which a COD attempt (cart with at least one item, valid
\* address) learns that its order was created leaves exactly one Order of
\* that attempt, an empty cart with total zero, one alert reporting success
\* with that Order's id, and no payment call and no payment UI.
C5_CodSuccess ==
    [][\A i \in 1..Len(attempts') :
          Reaches(i, "cod_success") =>
              LET h == attempts'[i].hist
                  mine == {o \in orders' : o.attempt = i}
              IN /\ attempts'[i].startItems # <<>>
                 /\ AddressRulesHold(attempts'[i].address)
                 /\ Cardinality(mine) = 1
                 /\ Cardinality(At(h, "POST /orders")) = 1
                 /\ items' = <<>> /\ total' = 0
                 /\ \A o \in mine : AlertsIn(h) = <<SuccessAlert("Order Placed!", o.id)>>
                 /\ PaymentCalls(h) = {}
                 /\ UiOpens(h) = {}]_vars

C5_Witness ==
    \E i \in Attempts : attempts[i].pc = "cod_success" /\ items = <<>>

\* ===================================================================
\* C6 - gateway error
\* ===================================================================
\* C6: An attempt whose payment UI ended with a failure other than a
\* cancellation has shown the alert "Payment Failed" with the gateway's
\* description, or "Something went wrong" when there is none, and has not
\* cleared the cart, on either platform.
C6_GatewayErrorSurfaced ==
    \A i \in Attempts :
        attempts[i].pc = "gateway_error" =>
            LET h == attempts[i].hist IN
            /\ \A k \in At(h, "payment UI result") :
                   AlertsIn(h) =
                       <<Alert("Payment Failed",
                               IF h[k].data.description # Undefined
                               THEN h[k].data.description
                               ELSE "Something went wrong")>>
            /\ At(h, "clearCart") = {}

\* ===================================================================
\* C7 - cancellation
\* ===================================================================
\* C7: An attempt whose payment UI was cancelled has shown no alert, has
\* issued no verify call and has not cleared the cart, and after the
\* cancellation it has done nothing but leave handlePlaceOrder.
C7_CancelSilent ==
    \A i \in Attempts :
        attempts[i].pc = "cancelled" =>
            LET h == attempts[i].hist IN
            /\ AlertsIn(h) = <<>>
            /\ At(h, "POST /payments/verify") = {}
            /\ At(h, "clearCart") = {}
            /\ \A k \in At(h, "payment UI result") :
                   \A m \in (k + 1)..Len(h) : h[m].kind = "setLoading"

C7_Witness ==
    \E i \in Attempts :
        /\ attempts[i].pc = "cancelled"
        /\ items = attempts[i].startItems
        /\ total = attempts[i].startTotal

\* ===================================================================
\* C8 - order creation failure
\* ===================================================================
\* C8: An attempt whose POST /orders was rejected is over: it has created
\* no Order, issued no payment call, opened no payment UI, not cleared the
\* cart, and shown one alert whose message is the server's detail when
\* there is one and "Failed to place order" otherwise.
C8_OrderFailureTerminal ==
    \A i \in Attempts :
        attempts[i].pc = "order_failed" =>
            LET h == attempts[i].hist IN
            /\ \A k \in At(h, "response POST /orders") :
                   /\ AlertsIn(h) =
                          <<Alert("Error",
                                  IF h[k].data.detail # Undefined
                                  THEN h[k].data.detail
                                  ELSE "Failed to place order")>>
                   /\ \A m \in (k + 1)..Len(h) : h[m].kind \in {"Alert.alert", "setLoading"}
            /\ Cardinality(At(h, "response POST /orders")) = 1
            /\ PaymentCalls(h) = {}
            /\ UiOpens(h) = {}
            /\ At(h, "clearCart") = {}
            /\ {o \in orders : o.attempt = i} = {}

\* An order creation was rejected with a detail message.
C8_Witness ==
    \E i \in Attempts :
        /\ attempts[i].pc = "order_failed"
        /\ \E k \in At(attempts[i].hist, "response POST /orders") :
               attempts[i].hist[k].data.detail = "Cart is empty"

\* ===================================================================
\* C9 - the stages of an online attempt are sequential
\* ===================================================================
\* C9: In every attempt the payment-intent request comes after a successful
\* create-order response, the payment UI is opened after a successful
\* intent response, the verify request comes after a success result of the
\* payment UI, and the attempt's Order exists before any of its payment
\* calls.
C9_StagesSequential ==
    \A i \in Attempts :
        LET h == attempts[i].hist IN
        /\ Precedes(OkAt(h, "response POST /orders"), At(h, "POST /payments/create-order"))
        /\ Precedes(OkAt(h, "response POST /payments/create-order"), UiOpens(h))
        /\ Precedes(OkAt(h, "payment UI result"), At(h, "POST /payments/verify"))
        /\ Precedes(At(h, "POST /orders"), At(h, "response POST /orders"))
        /\ PaymentCalls(h) \cup UiOpens(h) # {} =>
               \E o \in orders : o.attempt = i /\ o.id = attempts[i].orderId

\* An attempt has gone through every stage.
C9_Witness ==
    \E i \in Attempts :
        /\ attempts[i].pc = "verified"
        /\ At(attempts[i].hist, "POST /payments/verify") # {}

\* ===================================================================
\* C10 - one attempt in flight
\* ===================================================================
\* C10: While an attempt that passed validation has not reached a terminal
\* state, loading is true (the submit control is disabled), and at most one
\* attempt is in that condition.
C10_SingleInFlight ==
    /\ \A i \in Attempts : attempts[i].pc \notin Terminal => loading
    /\ Cardinality({i \in Attempts : attempts[i].pc \notin Terminal}) <= 1

\* ===================================================================
\* C11 - retry after a cancelled or failed payment
\* ===================================================================
\* The attempt the step at hand starts, if it starts one.
Started == Len(attempts') > Len(attempts)

\* C11: When the button is pressed for online payment after an earlier
\* attempt ended Cancelled or GatewayError, leaving its Order pending, the
\* new attempt issues no POST /orders.
C11_RetryReusesOrder ==
    [][(/\ Started
        /\ paymentMethod = "razorpay"
        /\ \E i \in Attempts : attempts[i].pc \in {"cancelled", "gateway_error"})
       => At(attempts'[Len(attempts')].hist, "POST /orders") = {}]_vars

\* A cancelled attempt and its retry have left two Orders.
C11_TwoOrders ==
    \E i, j \in Attempts :
        /\ i < j
        /\ attempts[i].pc = "cancelled"
        /\ attempts[j].paymentMethod = "razorpay"
        /\ attempts[i].orderId # <<>>
        /\ attempts[j].orderId # <<>>
        /\ attempts[i].orderId # attempts[j].orderId
        /\ Cardinality(orders) = 2

\* ===================================================================
\* C12 - the address validator, on every shape of address
\* ===================================================================
\* Every text the form fields can hold: empty or filled, a phone of 9 or 10
\* characters, a pincode of 5 or 6 (the inputs cap them at 10 and 6).
FormAddresses ==
    [full_name : {"", "Asha Rao"},
     phone : {"", "987654321", "9876543210"},
     address_line1 : {"", "12 MG Road"},
     address_line2 : {"", "Flat 2"},
     city : {"", "Pune"},
     state : {"", "MH"},
     pincode : {"", "41100", "411001"}]

InitValidate ==
    /\ platform \in {"web", "native"}
    /\ \E c \in Carts : items = c.items /\ total = c.total
    /\ loading = FALSE
    /\ paymentMethod = "razorpay"
    /\ address \in FormAddresses
    /\ attempts = <<>>
    /\ orders = {}
    /\ LoggedIn
    /\ server = [items |-> items, total |-> total]

\* The button pressed on an address of any shape.
SpecValidate == InitValidate /\ [][PlaceOrder]_vars

\* The reason the rules give, checked in order; "" when all hold.
FirstFailure(a) ==
    IF a.full_name = "" \/ a.phone = "" \/ a.address_line1 = ""
       \/ a.city = "" \/ a.state = "" \/ a.pincode = ""
    THEN "Please fill in all required fields"
    ELSE IF Len(a.phone) < 10 THEN "Please enter a valid phone number"
    ELSE IF Len(a.pincode) # 6 THEN "Please enter a valid 6-digit pincode"
    ELSE ""

\* C12: A press on an address that breaks a rule does nothing but show one
\* alert, the one of the first rule broken in the order required field,
\* phone length, pincode length (address_line2 is not required): no request,
\* no change of loading or of the cart.  An address that breaks no rule
\* passes.  A complete address with a 9-character phone gets the phone
\* message.
C12_FirstFailureWins ==
    \A i \in Attempts :
        LET a == attempts[i].address
            h == attempts[i].hist
        IN /\ FirstFailure(a) # "" =>
                  /\ attempts[i].pc = "validation_failed"
                  /\ h = <<Alert("Error", FirstFailure(a))>>
           /\ FirstFailure(a) = "" => attempts[i].pc # "validation_failed"
           /\ (Len(a.phone) = 9 /\ a.full_name # "" /\ a.address_line1 # ""
               /\ a.city # "" /\ a.state # "" /\ a.pincode # "") =>
                  h = <<Alert("Error", "Please enter a valid phone number")>>

\* A press on an address that breaks the phone rule and the pincode rule.
C12_Witness ==
    \E i \in Attempts :
        /\ Len(attempts[i].address.phone) = 9
        /\ Len(attempts[i].address.pincode) = 5
        /\ attempts[i].pc = "validation_failed"
        /\ loading = FALSE
        /\ items = attempts[i].startItems

\* ===================================================================
\* C13 - the empty cart
\* ===================================================================
\* The cart emptied from outside the checkout screen: the Clear All of the
\* cart screen (after DELETE /cart/clear answered) or the logout of the
\* profile screen calls clearCart, possibly with an attempt in flight.
ClearCartElsewhere ==
    /\ items # <<>>
    /\ items' = clearCart.items
    /\ total' = clearCart.total
    /\ server' = clearCart
    /\ UNCHANGED <<platform, loading, paymentMethod, address, attempts, orders>>
    /\ UNCHANGED <<auth, storage, calls, screen>>

InitClear ==
    /\ platform \in {"web", "native"}
    /\ \E c \in Carts : items = c.items /\ total = c.total
    /\ loading = FALSE
    /\ paymentMethod = "razorpay"
    /\ address = ValidAddress
    /\ attempts = <<>>
    /\ orders = {}
    /\ LoggedIn
    /\ server = [items |-> items, total |-> total]

NextClear ==
    \/ SetPaymentMethod
    \/ PlaceOrder
    \/ CreateOrderSettles
    \/ CreateIntentSettles
    \/ ScriptLoads
    \/ GatewayEnds
    \/ VerifySettles
    \/ ClearCartElsewhere

\* The checkout screen with a valid address, and the cart also emptied from
\* outside.
SpecClear == InitClear /\ [][NextClear]_vars

\* The events attempt i produces in the step at hand.
NewEvents(i) ==
    LET old == IF i > Len(attempts) THEN 0 ELSE Len(attempts[i].hist)
    IN SubSeq(attempts'[i].hist, old + 1, Len(attempts'[i].hist))

\* Some attempt issues a call of one of the kinds in the step at hand.
Issued(kinds) ==
    \E i \in 1..Len(attempts') :
        \E k \in 1..Len(NewEvents(i)) : NewEvents(i)[k].kind \in kinds

\* C13 (as claimed): In a state where the cart has no items, no call of the
\* flow is issued: no POST /orders, no POST /payments/create-order and no
\* POST /payments/verify.
C13_NoCallOnEmptyCart ==
    [][items = <<>> =>
          ~Issued({"POST /orders", "POST /payments/create-order",
                   "POST /payments/verify"})]_vars

\* C13 (amended): In a state where the cart has no items, no POST /orders
\* is issued, whoever emptied the cart.
C13_NoOrderOnEmptyCart ==
    [][items = <<>> => ~Issued({"POST /orders"})]_vars

\* The cart was emptied from outside, and only the missing button keeps a
\* press from starting an attempt.
C13_Witness ==
    /\ items = <<>>
    /\ ~loading
    /\ Len(attempts) < MaxAttempts
    /\ AddressRulesHold(address)
    /\ \A i \in Attempts : At(attempts[i].hist, "clearCart") = {}

\* ===================================================================
\* C14 - shipping fee and grand total
\* ===================================================================
\* Unit prices that put cart totals below, at and above the threshold.
Prices == {1000, 2000, 2500, 4999, 5000, 5001}

\* One-line carts as the server returns them: total = price * quantity.
FormCarts ==
    { [items |-> <<[product_id |-> "cement", quantity |-> q, price |-> p]>>,
       total |-> p * q] : q \in 1..MaxQty, p \in Prices }

InitTotals ==
    /\ platform \in {"web", "native"}
    /\ \E c \in FormCarts : items = c.items /\ total = c.total
    /\ loading = FALSE
    /\ paymentMethod = "razorpay"
    /\ address = ValidAddress
    /\ attempts = <<>>
    /\ orders = {}
    /\ LoggedIn
    /\ server = [items |-> items, total |-> total]

NextTotals ==
    \/ SetPaymentMethod
    \/ PlaceOrder
    \/ CreateOrderSettles
    \/ CreateIntentSettles

\* The checkout screen on carts of many totals, up to the payment-intent
\* request.
SpecTotals == InitTotals /\ [][NextTotals]_vars

\* C14: For the cart an attempt was started on, the grand total the screen
\* computed is the cart total plus a shipping fee of 99 when the total is
\* below 5000 and of 0 when it is above: 4000 gives 4099, 6000 gives 6000.
C14_ShippingFee ==
    \A i \in Attempts :
        LET t == attempts[i].startTotal
            g == attempts[i].grandTotal
        IN /\ t < 5000 => g - t = 99
           /\ t > 5000 => g - t = 0
           /\ t = 4000 => g = 4099
           /\ t = 6000 => g = 6000

C14_Witness ==
    \E i \in Attempts : attempts[i].startTotal = 4000 /\ attempts[i].grandTotal = 4099

\* ===================================================================
\* C19 - the amount of the payment intent
\* ===================================================================
\* C19: The amount of every POST /payments/create-order is the total of the
\* cart the attempt was started on plus the shipping fee of that total (0
\* above 5000, 99 otherwise).
C19_IntentAmount ==
    \A i \in Attempts :
        LET h == attempts[i].hist
            t == attempts[i].startTotal
        IN \A k \in At(h, "POST /payments/create-order") :
               h[k].data.amount = t + (IF t > 5000 THEN 0 ELSE 99)

\* An intent was requested for a cart that pays shipping.
C19_Witness ==
    \E i \in Attempts :
        /\ attempts[i].startTotal = 5000
        /\ \E k \in At(attempts[i].hist, "POST /payments/create-order") :
               attempts[i].hist[k].data.amount = 5099

\* ===================================================================
\* C15 - clearCart is idempotent
\* ===================================================================
\* C15: Every call of clearCart leaves no items and total zero, and a call
\* made when an earlier success path has already called it leaves the cart
\* as that first call left it.
C15_ClearIdempotent ==
    [][Issued({"clearCart"}) =>
          /\ items' = <<>> /\ total' = 0
          /\ (\E i \in Attempts : At(attempts[i].hist, "clearCart") # {}) =>
                 items' = items /\ total' = total]_vars

\* Two overlapping attempts have both called clearCart.
C15_Witness ==
    \E i, j \in Attempts :
        /\ i # j
        /\ At(attempts[i].hist, "clearCart") # {}
        /\ At(attempts[j].hist, "clearCart") # {}
        /\ attempts[i].startItems # <<>>
        /\ items = <<>> /\ total = 0

\* ===================================================================
\* C16 - success is reported only after verification
\* ===================================================================
\* The positions of the alerts that report success (they carry the order
\* reference and the View Order target).
SuccessAlerts(h) == {k \in At(h, "Alert.alert") : h[k].data.nav # <<>>}

\* C16: In an online attempt every success alert comes after a verify
\* response that succeeded, and only an attempt that ended Verified has one.
C16_SuccessOnlyAfterVerify ==
    \A i \in Attempts :
        attempts[i].paymentMethod = "razorpay" =>
            LET h == attempts[i].hist IN
            /\ Precedes(OkAt(h, "response POST /payments/verify"), SuccessAlerts(h))
            /\ SuccessAlerts(h) # {} => attempts[i].pc = "verified"

\* One attempt was verified and reported, another had its payment accepted
\* by the UI and rejected by the server.
C16_Witness ==
    \E i, j \in Attempts :
        /\ attempts[i].pc = "verified"
        /\ SuccessAlerts(attempts[i].hist) # {}
        /\ attempts[j].pc = "verification_failed"
        /\ OkAt(attempts[j].hist, "payment UI result") # {}

\* ===================================================================
\* C17 - no automatic retries
\* ===================================================================
\* C17: One invocation of handlePlaceOrder issues POST /orders, POST
\* /payments/create-order, the opening of the payment UI and POST
\* /payments/verify at most once each.
C17_NoRetry ==
    \A i \in Attempts :
        LET h == attempts[i].hist IN
        /\ Cardinality(At(h, "POST /orders")) <= 1
        /\ Cardinality(At(h, "POST /payments/create-order")) <= 1
        /\ Cardinality(UiOpens(h)) <= 1
        /\ Cardinality(At(h, "POST /payments/verify")) <= 1

\* An attempt failed at its last call, having made each call once.
C17_Witness ==
    \E i \in Attempts :
        /\ attempts[i].pc = "verification_failed"
        /\ Cardinality(At(attempts[i].hist, "POST /payments/verify")) = 1
        /\ Cardinality(At(attempts[i].hist, "POST /orders")) = 1

\* ===================================================================
\* C18 - every stage reports its own failure
\* ===================================================================
\* C18: An attempt that ended in a failure has shown exactly the alert of
\* the stage that failed: order creation "Error" with the detail or "Failed
\* to place order", intent creation "Error / Failed to initiate payment.
\* Please try again.", the payment UI "Payment Failed", verification
\* "Payment Verification Failed / Please contact support."; after an intent
\* failure no payment UI was opened, no verify call made, the cart not
\* cleared; and handlePlaceOrder has run to its end.
C18_StageMessages ==
    \A i \in Attempts :
        LET h == attempts[i].hist
            al == AlertsIn(h)
        IN /\ attempts[i].pc \in {"order_failed", "intent_failed", "gateway_error",
                                  "verification_failed"} =>
                  /\ Len(al) = 1
                  /\ \E k \in At(h, "setLoading") :
                         /\ ~h[k].data.value
                         /\ \A m \in At(h, "setLoading") : m <= k
           /\ attempts[i].pc = "order_failed" =>
                  /\ al[1].data.title = "Error"
                  /\ al[1].data.message # "Failed to initiate payment. Please try again."
           /\ attempts[i].pc = "intent_failed" =>
                  /\ al = <<Alert("Error", "Failed to initiate payment. Please try again.")>>
                  /\ UiOpens(h) = {}
                  /\ At(h, "POST /payments/verify") = {}
                  /\ At(h, "clearCart") = {}
           /\ attempts[i].pc = "gateway_error" => al[1].data.title = "Payment Failed"
           /\ attempts[i].pc = "verification_failed" =>
                  al = <<Alert("Payment Verification Failed", "Please contact support.")>>

\* The case the claim singles out, which holds: the order was created and
\* the intent request failed.
C18_IntentFailure ==
    \E i \in Attempts :
        /\ attempts[i].pc = "intent_failed"
        /\ attempts[i].orderId # <<>>
        /\ AlertsIn(attempts[i].hist) =
               <<Alert("Error", "Failed to initiate payment. Please try again.")>>
        /\ ~loading

\* ===================================================================
\* C20 - what the verify request carries
\* ===================================================================
\* C20: Every verify request carries the gateway order id, payment id and
\* signature the payment UI returned for the attempt's intent, and the id of
\* the Order created by the same attempt, which is the id of no other
\* attempt's Order.
C20_VerifyPayload ==
    \A i \in Attempts :
        LET h == attempts[i].hist
            r == GatewayResponse(attempts[i].razorpayOrder)
        IN \A k \in At(h, "POST /payments/verify") :
               /\ h[k].data.razorpay_order_id = r.razorpay_order_id
               /\ h[k].data.razorpay_payment_id = r.razorpay_payment_id
               /\ h[k].data.razorpay_signature = r.razorpay_signature
               /\ h[k].data.order_id = attempts[i].orderId
               /\ \E o \in orders : o.id = h[k].data.order_id /\ o.attempt = i
               /\ \A o \in orders : o.id = h[k].data.order_id => o.attempt = i

\* Two attempts overlap, each with its verify request issued.
C20_Witness ==
    \E i, j \in Attempts :
        /\ i # j
        /\ attempts[i].pc = "verifying"
        /\ attempts[j].pc = "verifying"

\* ===================================================================
\* The cart screen (CartScreen, CartItemCard) and the backend's cart
\* ===================================================================
\* Number of handler invocations outside the checkout screen that are explored.
MaxCalls == 2

\* One invocation of a handler: where it stands, what it sent and received,
\* and the values its closure holds.
NewCall(op, pc, ev) ==
    [op |-> op, pc |-> pc, hist |-> ev,
     cart |-> [items |-> <<>>, total |-> 0],
     user |-> Null, token |-> Null]

Calls == 1..Len(calls)

\* The backend's total of a cart: the sum of price times quantity.
RECURSIVE CartTotal(_)
CartTotal(its) ==
    IF its = <<>> THEN 0
    ELSE Head(its).price * Head(its).quantity + CartTotal(Tail(its))

CartOf(its) == [items |-> its, total |-> CartTotal(its)]

RECURSIVE Without(_, _)
Without(its, pid) ==
    IF its = <<>> THEN <<>>
    ELSE IF Head(its).product_id = pid THEN Without(Tail(its), pid)
    ELSE <<Head(its)>> \o Without(Tail(its), pid)

\* PUT /cart/update accepted by the backend: the line gets the quantity, a
\* quantity below 1 removes the line.
ServerUpdate(cart, pid, q) ==
    IF q < 1 THEN CartOf(Without(cart.items, pid))
    ELSE CartOf([k \in 1..Len(cart.items) |->
                    IF cart.items[k].product_id = pid
                    THEN [cart.items[k] EXCEPT !.quantity = q]
                    ELSE cart.items[k]])

\* DELETE /cart/remove/{id} accepted by the backend.
ServerRemove(cart, pid) == CartOf(Without(cart.items, pid))

\* The quantity the minus and plus controls of a cart line hand to
\* onUpdateQuantity.
CartItemCardMinus(item) == item.quantity - 1
CartItemCardPlus(item) == item.quantity + 1

\* loadCart of the cart screen up to its await.
loadCartStart == <<SetLoading(TRUE), Request("GET /cart", [n |-> 0])>>

\* A call takes a step: its events are appended, its position changes.
Step(c, pc, ev) == calls' = [calls EXCEPT ![c].pc = pc, ![c].hist = @ \o ev]

\* The cart screen's loading flag after the events of a step.
ScreenLoading(ev) == screen' = [screen EXCEPT !.loading = LastLoading(ev, @)]

\* A press of minus or plus that also edits the local line at once.
handleUpdateQuantity_Optimistic ==
    /\ Len(calls) < MaxCalls
    /\ \E k \in 1..Len(items) : \E q \in {CartItemCardMinus(items[k]), CartItemCardPlus(items[k])} :
        /\ calls' = Append(calls,
               NewCall("handleUpdateQuantity", "updating",
                       <<Request("PUT /cart/update",
                                 [product_id |-> items[k].product_id, quantity |-> q])>>))
        /\ items' = [items EXCEPT ![k].quantity = q]
    /\ UNCHANGED <<platform, total, loading, paymentMethod, address, attempts, orders>>
    /\ UNCHANGED <<auth, storage, server, screen>>

\* A press of the minus or the plus control of a cart line.
handleUpdateQuantity ==
    /\ Len(calls) < MaxCalls
    /\ \E k \in 1..Len(items) : \E q \in {CartItemCardMinus(items[k]), CartItemCardPlus(items[k])} :
        calls' = Append(calls,
            NewCall("handleUpdateQuantity", "updating",
                    <<Request("PUT /cart/update",
                              [product_id |-> items[k].product_id, quantity |-> q])>>))
    /\ UNCHANGED <<platform, items, total, loading, paymentMethod, address, attempts, orders>>
    /\ UNCHANGED <<auth, storage, server, screen>>

\* A press of the trash control of a cart line.
handleRemoveItem ==
    /\ Len(calls) < MaxCalls
    /\ \E k \in 1..Len(items) :
        calls' = Append(calls,
            NewCall("handleRemoveItem", "removing",
                    <<Request("DELETE /cart/remove", [product_id |-> items[k].product_id])>>))
    /\ UNCHANGED <<platform, items, total, loading, paymentMethod, address, attempts, orders>>
    /\ UNCHANGED <<auth, storage, server, screen>>

\* cartApi.updateCartItem settles; on success loadCart starts.
UpdateCartItemSettles ==
    \E c \in Calls, ok \in BOOLEAN :
        /\ calls[c].pc = "updating"
        /\ LET req == calls[c].hist[1].data
               ev == <<Response("PUT /cart/update", [ok |-> ok])>>
                     \o (IF ok THEN loadCartStart ELSE <<>>)
           IN /\ server' = IF ok THEN ServerUpdate(server, req.product_id, req.quantity)
                           ELSE server
              /\ Step(c, IF ok THEN "loading" ELSE "failed", ev)
              /\ ScreenLoading(ev)
        /\ UNCHANGED <<platform, items, total, loading, paymentMethod, address, attempts, orders>>
        /\ UNCHANGED <<auth, storage>>

\* cartApi.removeFromCart settles; on success loadCart starts.
RemoveFromCartSettles ==
    \E c \in Calls, ok \in BOOLEAN :
        /\ calls[c].pc = "removing"
        /\ LET req == calls[c].hist[1].data
               ev == <<Response("DELETE /cart/remove", [ok |-> ok])>>
                     \o (IF ok THEN loadCartStart ELSE <<>>)
           IN /\ server' = IF ok THEN ServerRemove(server, req.product_id) ELSE server
              /\ Step(c, IF ok THEN "loading" ELSE "failed", ev)
              /\ ScreenLoading(ev)
        /\ UNCHANGED <<platform, items, total, loading, paymentMethod, address, attempts, orders>>
        /\ UNCHANGED <<auth, storage>>

\* The backend answers a GET /cart with the cart it holds at that moment.
ServerAnswersGet ==
    \E c \in Calls :
        /\ calls[c].pc = "loading"
        /\ calls' = [calls EXCEPT ![c].pc = "answered", ![c].cart = server]
        /\ UNCHANGED <<platform, items, total, loading, paymentMethod, address, attempts, orders>>
        /\ UNCHANGED <<auth, storage, server, screen>>

\* cartApi.getCart settles in loadCart: setCart on success, the finally
\* resets the loading flag.
LoadCartSettles ==
    \E c \in Calls, ok \in BOOLEAN :
        /\ calls[c].pc = "answered"
        /\ calls[c].op \in {"handleUpdateQuantity", "handleRemoveItem", "loadCart"}
        /\ LET ev == <<Response("GET /cart", [ok |-> ok])>>
                     \o (IF ok THEN <<Event("setCart", calls[c].cart)>> ELSE <<>>)
                     \o <<SetLoading(FALSE)>>
           IN /\ items' = IF ok THEN calls[c].cart.items ELSE items
              /\ total' = IF ok THEN calls[c].cart.total ELSE total
              /\ Step(c, IF ok THEN "done" ELSE "failed", ev)
              /\ ScreenLoading(ev)
        /\ UNCHANGED <<platform, loading, paymentMethod, address, attempts, orders>>
        /\ UNCHANGED <<auth, storage, server>>

\* Clear All confirmed.
handleClearCart ==
    /\ Len(calls) < MaxCalls
    /\ Len(items) > 0
    /\ calls' = Append(calls, NewCall("handleClearCart", "clearing",
                                      <<Request("DELETE /cart/clear", [n |-> 0])>>))
    /\ UNCHANGED <<platform, items, total, loading, paymentMethod, address, attempts, orders>>
    /\ UNCHANGED <<auth, storage, server, screen>>

\* cartApi.clearCart settles; on success the store is cleared.
ClearCartSettles ==
    \E c \in Calls, ok \in BOOLEAN :
        /\ calls[c].pc = "clearing"
        /\ server' = IF ok THEN clearCart ELSE server
        /\ items' = IF ok THEN clearCart.items ELSE items
        /\ total' = IF ok THEN clearCart.total ELSE total
        /\ Step(c, IF ok THEN "done" ELSE "failed",
                <<Response("DELETE /cart/clear", [ok |-> ok])>>
                \o (IF ok THEN <<ClearCart>> ELSE <<>>))
        /\ UNCHANGED <<platform, loading, paymentMethod, address, attempts, orders>>
        /\ UNCHANGED <<auth, storage, screen>>

\* The cart screen open on a cart the store has loaded.
InitCart ==
    /\ platform \in {"web", "native"}
    /\ \E c \in Carts : items = c.items /\ total = c.total
    /\ loading = FALSE
    /\ paymentMethod = "razorpay"
    /\ address = EmptyAddress
    /\ attempts = <<>>
    /\ orders = {}
    /\ LoggedIn
    /\ server = [items |-> items, total |-> total]

NextCart ==
    \/ handleUpdateQuantity
    \/ handleRemoveItem
    \/ handleClearCart
    \/ UpdateCartItemSettles
    \/ RemoveFromCartSettles
    \/ ClearCartSettles
    \/ ServerAnswersGet
    \/ LoadCartSettles

SpecCart == InitCart /\ [][NextCart]_vars

\* Every call has run to its end.
Quiet == \A c \in Calls : calls[c].pc \in {"done", "failed"}

\* ===================================================================
\* C21 - cart edits round-trip through the server
\* ===================================================================
\* C21: The local cart changes only in a step that is the setCart of a cart
\* fetched after the call's own update or remove request succeeded, or a
\* clearCart; and the step in which an update or remove request fails leaves
\* items and total as they were.
C21_RoundTrip ==
    [][/\ (items' # items \/ total' # total) =>
             \E c \in Calls :
                 /\ calls[c].pc # calls'[c].pc
                 /\ \/ /\ calls[c].op \in {"handleUpdateQuantity", "handleRemoveItem"}
                       /\ calls[c].pc = "answered"
                       /\ \E k \in 1..Len(calls[c].hist) :
                              /\ calls[c].hist[k].kind \in {"response PUT /cart/update",
                                                            "response DELETE /cart/remove"}
                              /\ calls[c].hist[k].data.ok
                       /\ items' = calls[c].cart.items
                       /\ total' = calls[c].cart.total
                    \/ /\ calls[c].op = "handleClearCart"
                       /\ items' = <<>> /\ total' = 0
       /\ (\E c \in Calls : /\ calls[c].pc \in {"updating", "removing"}
                            /\ calls'[c].pc = "failed") =>
             items' = items /\ total' = total
      ]_vars

\* One edit was rejected by the backend, another went through and its
\* reload changed the local cart.
C21_Witness ==
    \E c, d \in Calls :
        /\ calls[c].pc = "failed"
        /\ Len(calls[c].hist) = 2
        /\ calls[d].pc = "done"
        /\ calls[d].op = "handleUpdateQuantity"
        /\ \E c0 \in Carts : c0.total # total /\ items # <<>>

\* ===================================================================
\* C22 - quantities submitted by the cart screen
\* ===================================================================
\* C22: Every quantity the cart screen submits to PUT /cart/update is at
\* least 1, the lines of the local cart all having a quantity of at least 1.
C22_SubmittedQuantity ==
    /\ \A k \in 1..Len(items) : items[k].quantity >= 1
    /\ \A c \in Calls :
           \A k \in At(calls[c].hist, "PUT /cart/update") :
               calls[c].hist[k].data.quantity >= 1

\* ===================================================================
\* C24 - the local cart after overlapping edits
\* ===================================================================
\* C24: When the quantity updates and removals issued by the cart screen and
\* the reloads that follow them have all completed, every request having
\* succeeded, the local cart is the backend's cart.
C24_Converges ==
    (/\ Len(calls) > 0
     /\ \A c \in Calls : /\ calls[c].op \in {"handleUpdateQuantity", "handleRemoveItem"}
                         /\ calls[c].pc = "done") =>
        items = server.items /\ total = server.total

\* Two edits overlapped and both reloads have set the store.
C24_Overlap ==
    /\ Len(calls) = 2
    /\ \A c \in Calls : /\ calls[c].op \in {"handleUpdateQuantity", "handleRemoveItem"}
                        /\ calls[c].pc = "done"
    /\ items # server.items

\* ===================================================================
\* C23 - every online attempt ends
\* ===================================================================
NextLive ==
    \/ PlaceOrder
    \/ CreateOrderSettles
    \/ CreateIntentSettles
    \/ ScriptLoads
    \/ GatewayEnds
    \/ VerifySettles

\* The checkout screen with a valid address and online payment, where every
\* request and the payment UI eventually settle.
SpecLive ==
    /\ InitClear
    /\ [][NextLive]_vars
    /\ WF_vars(CreateOrderSettles)
    /\ WF_vars(CreateIntentSettles)
    /\ WF_vars(ScriptLoads)
    /\ WF_vars(GatewayEnds)
    /\ WF_vars(VerifySettles)

\* The outcomes of an online attempt that passed validation.
OnlineTerminal ==
    {"order_failed", "intent_failed", "verified", "verification_failed",
     "cancelled", "gateway_error"}

\* The stages in their order: from each position, the positions that follow.
StageOrder ==
    {<<"creatingOrder", "order_failed">>, <<"creatingOrder", "creatingIntent">>,
     <<"creatingIntent", "intent_failed">>, <<"creatingIntent", "scriptLoading">>,
     <<"creatingIntent", "awaitingGateway">>, <<"scriptLoading", "awaitingGateway">>,
     <<"awaitingGateway", "verifying">>, <<"awaitingGateway", "cancelled">>,
     <<"awaitingGateway", "gateway_error">>,
     <<"verifying", "verified">>, <<"verifying", "verification_failed">>}

\* C23: Every online attempt that passed validation eventually reaches one
\* of the terminal outcomes and stays there, moving only along the order
\* order creation, intent creation, payment UI, verification; and whenever
\* the loading flag is true it is eventually false again.
C23_OnlineTerminates ==
    /\ \A i \in 1..MaxAttempts :
           [](i <= Len(attempts) =>
                  <>(i <= Len(attempts) /\ attempts[i].pc \in OnlineTerminal))
    /\ [](loading => <>(~loading))
    /\ [][\A i \in Attempts :
              attempts'[i].pc # attempts[i].pc =>
                  <<attempts[i].pc, attempts'[i].pc>> \in StageOrder]_vars

\* On native an attempt went through all stages to Verified and the button
\* is enabled again, after an earlier attempt that the user cancelled.
C23_Witness ==
    /\ platform = "native"
    /\ ~loading
    /\ \E i, j \in Attempts :
           /\ attempts[i].pc = "cancelled"
           /\ attempts[j].pc = "verified"
           /\ At(attempts[j].hist, "setLoading") # {}

\* ===================================================================
\* The auth store (useAuthStore) over AsyncStorage
\* ===================================================================
Users == {"asha", "ravi"}
TokenOf(u) == "token-" \o u

\* JSON.stringify of a user object.
JSONstringify(u) == "{" \o u \o "}"

\* JSON.parse of a stored string: the user it encodes, or a throw.
JSONparse(str) ==
    IF \E u \in Users : JSONstringify(u) = str
    THEN [ok |-> TRUE, value |-> CHOOSE u \in Users : JSONstringify(u) = str]
    ELSE [ok |-> FALSE, value |-> Null]

\* JavaScript truthiness of what AsyncStorage.getItem returned.
Truthy(str) == str # Null /\ str # ""

\* What the store holds when it is created.
InitialAuth == [user |-> Null, token |-> Null, isLoading |-> TRUE]

\* loadAuth that restores the token without looking at the stored user.
loadAuthSet_TokenOnly(cur, token, userStr) ==
    IF Truthy(token)
    THEN [user |-> IF Truthy(userStr) THEN JSONparse(userStr).value ELSE Null,
          token |-> token, isLoading |-> FALSE]
    ELSE [cur EXCEPT !.isLoading = FALSE]

\* The set call loadAuth ends with, for the two strings it read.
loadAuthSet(cur, token, userStr) ==
    IF Truthy(token) /\ Truthy(userStr)
    THEN IF JSONparse(userStr).ok
         THEN [user |-> JSONparse(userStr).value, token |-> token, isLoading |-> FALSE]
         ELSE [cur EXCEPT !.isLoading = FALSE]
    ELSE [cur EXCEPT !.isLoading = FALSE]

\* setAuth(user, token) up to its first await.
setAuth ==
    /\ Len(calls) < MaxCalls
    /\ \E u \in Users :
        calls' = Append(calls,
            [NewCall("setAuth", "setToken",
                     <<Event("setItem", [key |-> "auth_token", value |-> TokenOf(u)])>>)
             EXCEPT !.user = u, !.token = TokenOf(u)])
    /\ UNCHANGED <<platform, items, total, loading, paymentMethod, address, attempts, orders>>
    /\ UNCHANGED <<auth, storage, server, screen>>

\* AsyncStorage.setItem('auth_token') settles in setAuth.
SetTokenSettles ==
    \E c \in Calls :
        /\ calls[c].pc = "setToken"
        /\ storage' = [storage EXCEPT !.auth_token = calls[c].token]
        /\ Step(c, "setUser",
                <<Event("setItem", [key |-> "auth_user",
                                    value |-> JSONstringify(calls[c].user)])>>)
        /\ UNCHANGED <<platform, items, total, loading, paymentMethod, address, attempts, orders>>
        /\ UNCHANGED <<auth, server, screen>>

\* AsyncStorage.setItem('auth_user') settles in setAuth, which then sets the
\* store.
SetUserSettles ==
    \E c \in Calls :
        /\ calls[c].pc = "setUser"
        /\ storage' = [storage EXCEPT !.auth_user = JSONstringify(calls[c].user)]
        /\ auth' = [user |-> calls[c].user, token |-> calls[c].token, isLoading |-> FALSE]
        /\ Step(c, "done", <<Event("set", [token |-> calls[c].token])>>)
        /\ UNCHANGED <<platform, items, total, loading, paymentMethod, address, attempts, orders>>
        /\ UNCHANGED <<server, screen>>

\* logout() up to its first await.
logout ==
    /\ Len(calls) < MaxCalls
    /\ calls' = Append(calls,
           NewCall("logout", "removeToken",
                   <<Event("removeItem", [key |-> "auth_token"])>>))
    /\ UNCHANGED <<platform, items, total, loading, paymentMethod, address, attempts, orders>>
    /\ UNCHANGED <<auth, storage, server, screen>>

\* AsyncStorage.removeItem('auth_token') settles in logout.
RemoveTokenSettles ==
    \E c \in Calls :
        /\ calls[c].pc = "removeToken"
        /\ storage' = [storage EXCEPT !.auth_token = Null]
        /\ Step(c, "removeUser", <<Event("removeItem", [key |-> "auth_user"])>>)
        /\ UNCHANGED <<platform, items, total, loading, paymentMethod, address, attempts, orders>>
        /\ UNCHANGED <<auth, server, screen>>

\* AsyncStorage.removeItem('auth_user') settles in logout, which then resets
\* the store; called from handleLogout, the handler has clearCart left to do.
RemoveUserSettles ==
    \E c \in Calls :
        /\ calls[c].pc = "removeUser"
        /\ storage' = [storage EXCEPT !.auth_user = Null]
        /\ auth' = [user |-> Null, token |-> Null, isLoading |-> FALSE]
        /\ Step(c, IF calls[c].op = "handleLogout" THEN "clearCart" ELSE "done",
                <<Event("set", [token |-> Null])>>)
        /\ UNCHANGED <<platform, items, total, loading, paymentMethod, address, attempts, orders>>
        /\ UNCHANGED <<server, screen>>

\* loadAuth() up to its first await.
loadAuth ==
    /\ Len(calls) < MaxCalls
    /\ calls' = Append(calls,
           NewCall("loadAuth", "getToken", <<Event("getItem", [key |-> "auth_token"])>>))
    /\ UNCHANGED <<platform, items, total, loading, paymentMethod, address, attempts, orders>>
    /\ UNCHANGED <<auth, storage, server, screen>>

\* AsyncStorage.getItem('auth_token') settles in loadAuth.
GetTokenSettles ==
    \E c \in Calls :
        /\ calls[c].pc = "getToken"
        /\ calls' = [calls EXCEPT ![c].pc = "getUser",
                                  ![c].token = storage.auth_token,
                                  ![c].hist = @ \o <<Event("getItem", [key |-> "auth_user"])>>]
        /\ UNCHANGED <<platform, items, total, loading, paymentMethod, address, attempts, orders>>
        /\ UNCHANGED <<auth, storage, server, screen>>

\* AsyncStorage.getItem('auth_user') settles in loadAuth, which then sets the
\* store.
GetUserSettles ==
    \E c \in Calls :
        /\ calls[c].pc = "getUser"
        /\ auth' = loadAuthSet(auth, calls[c].token, storage.auth_user)
        /\ calls' = [calls EXCEPT ![c].pc = "done",
                                  ![c].user = storage.auth_user,
                                  ![c].hist = @ \o <<Event("set", [token |-> auth'.token])>>]
        /\ UNCHANGED <<platform, items, total, loading, paymentMethod, address, attempts, orders>>
        /\ UNCHANGED <<storage, server, screen>>

\* What AsyncStorage can hold when the app starts: nothing, a login, one key
\* of the two, or a user string that is not JSON.
StoredTokens == {Null, "token-asha"}
StoredUsers == {Null, "{asha}", "not json"}

\* The store as created, over any stored login.
InitAuth ==
    /\ platform \in {"web", "native"}
    /\ items = <<>> /\ total = 0
    /\ loading = FALSE
    /\ paymentMethod = "razorpay"
    /\ address = EmptyAddress
    /\ attempts = <<>>
    /\ orders = {}
    /\ auth = InitialAuth
    /\ storage \in [auth_token : StoredTokens, auth_user : StoredUsers]
    /\ server = clearCart
    /\ calls = <<>>
    /\ screen = [route |-> "login", loading |-> FALSE, quantity |-> 1,
                 addingToCart |-> FALSE, stock |-> 1, summary |-> <<>>]

NextAuth ==
    \/ setAuth
    \/ SetTokenSettles
    \/ SetUserSettles
    \/ logout
    \/ RemoveTokenSettles
    \/ RemoveUserSettles
    \/ loadAuth
    \/ GetTokenSettles
    \/ GetUserSettles

SpecAuth == InitAuth /\ [][NextAuth]_vars

\* ===================================================================
\* C26 - memory and storage after setAuth and logout
\* ===================================================================
\* C26: Once setAuth and logout calls, in any interleaving, have all
\* completed, the token in memory is non-null exactly when auth_token and
\* auth_user are both in storage.
C26_MemoryMatchesStorage ==
    (/\ Len(calls) > 0
     /\ \A c \in Calls : calls[c].op \in {"setAuth", "logout"} /\ calls[c].pc = "done") =>
        (auth.token # Null <=> (storage.auth_token # Null /\ storage.auth_user # Null))

\* A setAuth and a logout overlapped; both are done and memory is logged in
\* while storage lacks the token.
C26_Interleaved ==
    /\ Len(calls) = 2
    /\ \A c \in Calls : calls[c].pc = "done"
    /\ \E c, d \in Calls : calls[c].op = "setAuth" /\ calls[d].op = "logout"
    /\ auth.token # Null
    /\ storage.auth_token = Null

\* ===================================================================
\* C27 - user and token go together
\* ===================================================================
\* C27: In every state of the auth store user and token are both null or
\* both non-null; and a loadAuth that finds one key missing or a user string
\* it cannot parse leaves both as they were and sets isLoading to false.
C27_UserTokenTogether ==
    /\ []((auth.user = Null) <=> (auth.token = Null))
    /\ [][\A c \in Calls :
              (/\ calls[c].pc = "getUser" /\ calls'[c].pc = "done"
               /\ ~(/\ Truthy(calls[c].token) /\ Truthy(storage.auth_user)
                    /\ JSONparse(storage.auth_user).ok)) =>
                  /\ auth'.user = auth.user
                  /\ auth'.token = auth.token
                  /\ ~auth'.isLoading]_vars

\* A login is in memory, and a loadAuth that read a token and a user string
\* that is not JSON has completed without touching it.
C27_Witness ==
    /\ auth.token # Null /\ auth.user # Null
    /\ \E c \in Calls :
           /\ calls[c].op = "loadAuth" /\ calls[c].pc = "done"
           /\ Truthy(calls[c].token)
           /\ calls[c].user = "not json"

\* ===================================================================
\* Logout (ProfileScreen.handleLogout) against cart loads in flight
\* ===================================================================
\* loadCart of the cart screen up to its await: run by the effect on token
\* and by pull-to-refresh, both only with a token.
loadCart ==
    /\ Len(calls) < MaxCalls
    /\ auth.token # Null
    /\ calls' = Append(calls, NewCall("loadCart", "loading", loadCartStart))
    /\ ScreenLoading(loadCartStart)
    /\ UNCHANGED <<platform, items, total, loading, paymentMethod, address, attempts, orders>>
    /\ UNCHANGED <<auth, storage, server>>

\* Logout confirmed: the handler up to await authApi.logout().
handleLogout ==
    /\ Len(calls) < MaxCalls
    /\ auth.token # Null
    /\ calls' = Append(calls, NewCall("handleLogout", "authApi.logout",
                                      <<Request("POST /auth/logout", [n |-> 0])>>))
    /\ UNCHANGED <<platform, items, total, loading, paymentMethod, address, attempts, orders>>
    /\ UNCHANGED <<auth, storage, server, screen>>

\* authApi.logout settles; its failure is ignored and the store's logout
\* starts.
LogoutApiSettles ==
    \E c \in Calls, ok \in BOOLEAN :
        /\ calls[c].pc = "authApi.logout"
        /\ Step(c, "removeToken",
                <<Response("POST /auth/logout", [ok |-> ok]),
                  Event("removeItem", [key |-> "auth_token"])>>)
        /\ UNCHANGED <<platform, items, total, loading, paymentMethod, address, attempts, orders>>
        /\ UNCHANGED <<auth, storage, server, screen>>

\* handleLogout after await logout(): clearCart().
LogoutClearsCart ==
    \E c \in Calls :
        /\ calls[c].pc = "clearCart"
        /\ items' = clearCart.items
        /\ total' = clearCart.total
        /\ Step(c, "done", <<ClearCart>>)
        /\ UNCHANGED <<platform, loading, paymentMethod, address, attempts, orders>>
        /\ UNCHANGED <<auth, storage, server, screen>>

NextSession ==
    \/ loadCart
    \/ ServerAnswersGet
    \/ LoadCartSettles
    \/ handleLogout
    \/ LogoutApiSettles
    \/ RemoveTokenSettles
    \/ RemoveUserSettles
    \/ LogoutClearsCart

\* A logged-in user with a cart, reloading the cart and logging out.
SpecSession == InitCart /\ [][NextSession]_vars

\* ===================================================================
\* C25 - the cart after logout
\* ===================================================================
\* C25: Once the logout handler has completed, the token is null and the
\* cart is empty with total 0, and stays so (there is no login after it).
C25_EmptyAfterLogout ==
    (\E c \in Calls : calls[c].op = "handleLogout" /\ calls[c].pc = "done") =>
        /\ auth.token = Null
        /\ items = <<>>
        /\ total = 0

\* The logout handler has completed although the server logout call failed,
\* and a cart load that was in flight has completed after it.
C25_LoadAfterLogout ==
    \E c, d \in Calls :
        /\ calls[c].op = "handleLogout" /\ calls[c].pc = "done"
        /\ \E k \in 1..Len(calls[c].hist) :
               /\ calls[c].hist[k].kind = "response POST /auth/logout"
               /\ ~calls[c].hist[k].data.ok
        /\ calls[d].op = "loadCart" /\ calls[d].pc = "done"
        /\ auth.token = Null
        /\ items # <<>>

\* ===================================================================
\* The product screen (ProductDetailScreen)
\* ===================================================================
\* Largest stock of the product shown.
MaxStock == 3

\* The product shown.
ProductId == "sand"
ProductPrice == 1000

Min(a, b) == IF a < b THEN a ELSE b
Max(a, b) == IF a > b THEN a ELSE b

\* POST /cart/add accepted by the backend: the quantity is added to the
\* product's line, a new line is appended when there is none.
ServerAdd(cart, pid, q) ==
    IF \E k \in 1..Len(cart.items) : cart.items[k].product_id = pid
    THEN CartOf([k \in 1..Len(cart.items) |->
                    IF cart.items[k].product_id = pid
                    THEN [cart.items[k] EXCEPT !.quantity = @ + q]
                    ELSE cart.items[k]])
    ELSE CartOf(Append(cart.items,
                       [product_id |-> pid, quantity |-> q, price |-> ProductPrice]))

SetAddingToCart(b) == Event("setAddingToCart", [value |-> b])

RECURSIVE LastAdding(_, _)
LastAdding(ev, cur) ==
    IF ev = <<>> THEN cur
    ELSE LastAdding(Tail(ev),
                    IF Head(ev).kind = "setAddingToCart" THEN Head(ev).data.value ELSE cur)

\* The product screen's addingToCart flag after the events of a step.
ScreenAdding(ev) == screen' = [screen EXCEPT !.addingToCart = LastAdding(ev, @)]

\* handleAddToCart up to its return or first await, for the token the
\* handler's closure holds.
handleAddToCartStart(token, quantity) ==
    IF token = Null
    THEN [pc |-> "returned",
          ev |-> <<Alert("Login Required", "Please login to add items to cart")>>]
    ELSE [pc |-> "adding",
          ev |-> <<SetAddingToCart(TRUE),
                   Request("POST /cart/add",
                           [product_id |-> ProductId, quantity |-> quantity])>>]

\* The catch and finally blocks of handleAddToCart.
addToCartCatch == <<Alert("Error", "Failed to add item to cart"), SetAddingToCart(FALSE)>>

\* Where a call stands when handleAddToCart has returned: handleBuyNow has
\* its own continuation left.
Returned(c) == IF calls[c].op = "handleBuyNow" THEN "returned" ELSE "done"

\* The minus control flooring the quantity at 0.
MinusPress_NoFloor ==
    /\ screen' = [screen EXCEPT !.quantity = Max(0, @ - 1)]
    /\ UNCHANGED <<platform, items, total, loading, paymentMethod, address, attempts, orders>>
    /\ UNCHANGED <<auth, storage, server, calls>>

\* The minus control.
MinusPress ==
    /\ screen' = [screen EXCEPT !.quantity = Max(1, @ - 1)]
    /\ UNCHANGED <<platform, items, total, loading, paymentMethod, address, attempts, orders>>
    /\ UNCHANGED <<auth, storage, server, calls>>

\* The plus control.
PlusPress ==
    /\ screen' = [screen EXCEPT !.quantity = Min(screen.stock, @ + 1)]
    /\ UNCHANGED <<platform, items, total, loading, paymentMethod, address, attempts, orders>>
    /\ UNCHANGED <<auth, storage, server, calls>>

\* The Add button: disabled while adding and for a product out of stock.
handleAddToCart ==
    /\ Len(calls) < MaxCalls
    /\ ~screen.addingToCart
    /\ screen.stock # 0
    /\ LET eff == handleAddToCartStart(auth.token, screen.quantity) IN
        /\ calls' = Append(calls,
               [NewCall("handleAddToCart",
                        IF eff.pc = "returned" THEN "done" ELSE eff.pc, eff.ev)
                EXCEPT !.token = auth.token])
        /\ ScreenAdding(eff.ev)
    /\ UNCHANGED <<platform, items, total, loading, paymentMethod, address, attempts, orders>>
    /\ UNCHANGED <<auth, storage, server>>

\* The Buy Now button: handleBuyNow up to await handleAddToCart().
handleBuyNow ==
    /\ Len(calls) < MaxCalls
    /\ ~screen.addingToCart
    /\ screen.stock # 0
    /\ LET eff == handleAddToCartStart(auth.token, screen.quantity) IN
        /\ calls' = Append(calls,
               [NewCall("handleBuyNow", eff.pc, eff.ev) EXCEPT !.token = auth.token])
        /\ ScreenAdding(eff.ev)
    /\ UNCHANGED <<platform, items, total, loading, paymentMethod, address, attempts, orders>>
    /\ UNCHANGED <<auth, storage, server>>

\* cartApi.addToCart settles; on success the cart is fetched.
AddToCartSettles ==
    \E c \in Calls, ok \in BOOLEAN :
        /\ calls[c].pc = "adding"
        /\ LET req == calls[c].hist[2].data
               ev == <<Response("POST /cart/add", [ok |-> ok])>>
                     \o (IF ok THEN <<Request("GET /cart", [n |-> 0])>> ELSE addToCartCatch)
           IN /\ server' = IF ok THEN ServerAdd(server, req.product_id, req.quantity)
                           ELSE server
              /\ Step(c, IF ok THEN "loading" ELSE Returned(c), ev)
              /\ ScreenAdding(ev)
        /\ UNCHANGED <<platform, items, total, loading, paymentMethod, address, attempts, orders>>
        /\ UNCHANGED <<auth, storage>>

\* cartApi.getCart settles in handleAddToCart.
AddedCartSettles ==
    \E c \in Calls, ok \in BOOLEAN :
        /\ calls[c].pc = "answered"
        /\ calls[c].op \in {"handleAddToCart", "handleBuyNow"}
        /\ LET ev == <<Response("GET /cart", [ok |-> ok])>>
                     \o (IF ok
                         THEN <<Event("setCart", calls[c].cart),
                                Alert("Success", "Item added to cart!"),
                                SetAddingToCart(FALSE)>>
                         ELSE addToCartCatch)
           IN /\ items' = IF ok THEN calls[c].cart.items ELSE items
              /\ total' = IF ok THEN calls[c].cart.total ELSE total
              /\ Step(c, Returned(c), ev)
              /\ ScreenAdding(ev)
        /\ UNCHANGED <<platform, loading, paymentMethod, address, attempts, orders>>
        /\ UNCHANGED <<auth, storage, server>>

\* handleBuyNow after await handleAddToCart().
BuyNowContinues ==
    \E c \in Calls :
        /\ calls[c].pc = "returned"
        /\ IF calls[c].token # Null
           THEN /\ Step(c, "done", <<Event("router.push", [path |-> "/checkout"])>>)
                /\ screen' = [screen EXCEPT !.route = "checkout"]
           ELSE /\ Step(c, "done", <<>>)
                /\ UNCHANGED screen
        /\ UNCHANGED <<platform, items, total, loading, paymentMethod, address, attempts, orders>>
        /\ UNCHANGED <<auth, storage, server>>

\* The product screen with the product loaded, for a user logged in or not.
InitProduct ==
    /\ platform \in {"web", "native"}
    /\ items = <<>> /\ total = 0
    /\ loading = FALSE
    /\ paymentMethod = "razorpay"
    /\ address = EmptyAddress
    /\ attempts = <<>>
    /\ orders = {}
    /\ \/ /\ auth = [user |-> "asha", token |-> "token-asha", isLoading |-> FALSE]
          /\ storage = [auth_token |-> "token-asha", auth_user |-> "{asha}"]
       \/ /\ auth = [user |-> Null, token |-> Null, isLoading |-> FALSE]
          /\ storage = [auth_token |-> Null, auth_user |-> Null]
    /\ server = clearCart
    /\ calls = <<>>
    /\ \E st \in 0..MaxStock :
           screen = [route |-> "product", loading |-> FALSE, quantity |-> 1,
                     addingToCart |-> FALSE, stock |-> st, summary |-> <<>>]

NextProduct ==
    \/ MinusPress
    \/ PlusPress
    \/ handleAddToCart
    \/ handleBuyNow
    \/ AddToCartSettles
    \/ ServerAnswersGet
    \/ AddedCartSettles
    \/ BuyNowContinues

SpecProduct == InitProduct /\ [][NextProduct]_vars

\* ===================================================================
\* C28 - Buy Now
\* ===================================================================
\* C28: A call navigates to the checkout screen only when its user is logged
\* in and its add-to-cart request and its cart reload both succeeded; a call
\* of a user who is not logged in sends no cart request.
C28_BuyNowNavigates ==
    \A c \in Calls :
        LET h == calls[c].hist IN
        /\ At(h, "router.push") # {} =>
               /\ calls[c].token # Null
               /\ OkAt(h, "response POST /cart/add") # {}
               /\ OkAt(h, "response GET /cart") # {}
        /\ calls[c].token = Null =>
               At(h, "POST /cart/add") = {} /\ At(h, "GET /cart") = {}

\* Buy Now of a logged-in user whose add-to-cart request failed has
\* navigated to the checkout screen.
C28_NavigatedAfterFailure ==
    \E c \in Calls :
        /\ calls[c].op = "handleBuyNow"
        /\ At(calls[c].hist, "router.push") # {}
        /\ At(calls[c].hist, "response POST /cart/add") # {}
        /\ OkAt(calls[c].hist, "response POST /cart/add") = {}
        /\ screen.route = "checkout"

\* ===================================================================
\* C30 - the quantity added from the product screen
\* ===================================================================
\* C30: Every add-to-cart request carries a quantity between 1 and the
\* product's stock, and for a product with stock 0 no add-to-cart request is
\* issued.
C30_QuantityWithinStock ==
    /\ \A c \in Calls :
           \A k \in At(calls[c].hist, "POST /cart/add") :
               /\ 1 <= calls[c].hist[k].data.quantity
               /\ calls[c].hist[k].data.quantity <= screen.stock
    /\ screen.stock = 0 =>
           \A c \in Calls : At(calls[c].hist, "POST /cart/add") = {}

\* After presses of plus and minus, one request went out with the whole
\* stock and another with a single unit.
C30_Witness ==
    /\ screen.stock >= 2
    /\ \E c, d \in Calls :
           /\ \E k \in At(calls[c].hist, "POST /cart/add") :
                  calls[c].hist[k].data.quantity = screen.stock
           /\ \E k \in At(calls[d].hist, "POST /cart/add") :
                  calls[d].hist[k].data.quantity = 1

\* ===================================================================
\* The cart screen's summary and the way to checkout
\* ===================================================================
\* A cart screen that ships free from the threshold on.
cartShippingFee_FromThreshold(t) ==
    IF t >= FreeShippingThreshold THEN 0 ELSE ShippingCharge

\* The shipping fee and grand total the cart screen renders.
cartShippingFee(t) == IF t > FreeShippingThreshold THEN 0 ELSE ShippingCharge

cartGrandTotal(t) == t + cartShippingFee(t)

\* Proceed to Checkout on the cart screen; the summary is what the screen
\* showed when it was left.
handleCheckout ==
    /\ screen.route = "cart"
    /\ IF Len(items) = 0
       THEN /\ Len(calls) < MaxCalls
            /\ calls' = Append(calls,
                   NewCall("handleCheckout", "done",
                           <<Alert("Empty Cart", "Please add items to your cart first.")>>))
            /\ UNCHANGED screen
       ELSE /\ screen' = [screen EXCEPT
                             !.route = "checkout",
                             !.summary = <<[shippingFee |-> cartShippingFee(total),
                                            grandTotal |-> cartGrandTotal(total)]>>]
            /\ UNCHANGED calls
    /\ UNCHANGED <<platform, items, total, loading, paymentMethod, address, attempts, orders>>
    /\ UNCHANGED <<auth, storage, server>>

\* The cart screen open on carts of many totals.
InitSummary ==
    /\ platform \in {"web", "native"}
    /\ \E c \in FormCarts : items = c.items /\ total = c.total
    /\ loading = FALSE
    /\ paymentMethod = "razorpay"
    /\ address = ValidAddress
    /\ attempts = <<>>
    /\ orders = {}
    /\ auth = [user |-> "asha", token |-> "token-asha", isLoading |-> FALSE]
    /\ storage = [auth_token |-> "token-asha", auth_user |-> "{asha}"]
    /\ server = [items |-> items, total |-> total]
    /\ calls = <<>>
    /\ screen = [route |-> "cart", loading |-> FALSE, quantity |-> 1,
                 addingToCart |-> FALSE, stock |-> 1, summary |-> <<>>]

NextSummary ==
    \/ handleCheckout
    \/ PlaceOrder
    \/ CreateOrderSettles
    \/ CreateIntentSettles

\* From the cart screen to the payment-intent request.
SpecSummary == InitSummary /\ [][NextSummary]_vars

\* ===================================================================
\* C29 - the cart screen and the checkout screen agree
\* ===================================================================
\* C29: The shipping fee and grand total the cart screen showed are those
\* the checkout screen computes for the same cart total: the fee is 0
\* exactly when the total is above 5000 and 99 otherwise, a total of 5000
\* makes 5099 on both, and every payment intent asks for the grand total
\* the cart screen showed.
C29_ScreensAgree ==
    screen.summary # <<>> =>
        LET shown == screen.summary[1] IN
        /\ shown.shippingFee = shippingFee(total)
        /\ shown.grandTotal = grandTotal(total)
        /\ shown.shippingFee = 0 <=> total > 5000
        /\ shown.shippingFee # 0 => shown.shippingFee = 99
        /\ total = 5000 => shown.grandTotal = 5099
        /\ \A i \in Attempts :
               \A k \in At(attempts[i].hist, "POST /payments/create-order") :
                   attempts[i].hist[k].data.amount = shown.grandTotal

\* A cart of exactly 5000 went from the cart screen, which showed 5099, to a
\* payment intent.
C29_Witness ==
    /\ total = 5000
    /\ screen.summary = <<[shippingFee |-> 99, grandTotal |-> 5099]>>
    /\ \E i \in Attempts : At(attempts[i].hist, "POST /payments/create-order") # {}

====
